---------------------------- MODULE Spec2Model ----------------------------
(***************************************************************************)
(* Model of the AIGM chat backend's real-time core: channel naming, the    *)
(* capability map of the Ably token, the event publisher, presence fan-out *)
(* and the membership endpoints that feed them.                            *)
(*                                                                         *)
(* Strings are sequences of tokens: an id such as a UUID is one token, the *)
(* delimiter ":" is a token of its own, so f-strings are concatenations    *)
(* and str.split(':', 1) is a search for the first ":" token.             *)
(***************************************************************************)
EXTENDS Integers, Sequences, FiniteSets, TLC

VARIABLES
    ablyConfigured, \* settings.ABLY_API_KEY is set, so RealtimeService().client is not None
    servers,        \* rows of servers: [id, created_by]; the access code stands for the id
    userServers,    \* rows of user_servers: [user_id, server_id, role]
    rooms,          \* rows of rooms: [id, server_id, is_private, created_by]
    userRooms,      \* rows of user_rooms: [user_id, room_id, role]
    convMembers,    \* rows of direct_conversation_members: [conversation_id, user_id]
    friendships,    \* rows of friendships: [user_id, friend_id, status]
    messages,       \* rows of messages: [id, user_id, room_id, conversation_id]
    reactions,      \* rows of message_reactions: [message_id, user_id, emoji]
    tlog,           \* calls made on the transport client by the last operation,
                    \* its background task included
    call,           \* the last operation invoked and its arguments
    ret,            \* what that operation returned (HTTP status or return value)
    counted         \* per user, the create_server requests whose count query has
                    \* run and whose insert has not: requests in the hands of
                    \* other workers on the same database

dbVars == <<servers, userServers, rooms, userRooms, convMembers, friendships, messages, reactions>>
vars == <<ablyConfigured, servers, userServers, rooms, userRooms, convMembers, friendships,
          messages, reactions, tlog, call, ret, counted>>

----------------------------------------------------------------------------
(* Bounds of the model *)

MaxList == 2        \* longest membership list handed to generate_token_request
MaxMessages == 1    \* rows of messages at any one time

(* Identifier universes *)
Users == {"alice", "bob", "carol"}
ServerIds == {"s1", "s2"}
RoomIds == {"r1", "r2"}
ConversationIds == {"c1", "c2"}

----------------------------------------------------------------------------
(* Python values *)

None == <<"None">>                      \* Python None where a str is optional
Str(id) == <<id>>                       \* str(uuid): one token
\* (mutant) a test for None only: the empty string counts as given
NotNone(s) == s # None
Truthy(s) == s # None /\ s # <<>>       \* `if s:` for an Optional[str]

SeqsUpTo(S, n) == UNION {[1..k -> S] : k \in 0..n}
Range(s) == {s[i] : i \in 1..Len(s)}

Contains(s, tok) == \E i \in 1..Len(s) : s[i] = tok

FirstIndex(s, tok) == CHOOSE i \in 1..Len(s) : s[i] = tok /\ \A j \in 1..(i-1) : s[j] # tok

\* (mutant) a split that leaves the ':' at the head of the second part
SplitOnceKeepingColon(s) ==
    LET i == FirstIndex(s, ":")
    IN <<SubSeq(s, 1, i - 1), SubSeq(s, i, Len(s))>>
\* s.split(':', 1) for a string that contains ':'
SplitOnce(s) ==
    LET i == FirstIndex(s, ":")
    IN <<SubSeq(s, 1, i - 1), SubSeq(s, i + 1, Len(s))>>

\* d[k] = v on a Python dict
DictSet(d, k, v) == [x \in (DOMAIN d) \cup {k} |-> IF x = k THEN v ELSE d[x]]

----------------------------------------------------------------------------
(* RealtimeService: channel names *)

ROOM_CHANNEL_PREFIX == <<"room">>
DM_CHANNEL_PREFIX == <<"dm">>
USER_CHANNEL_PREFIX == <<"user">>
SERVER_CHANNEL_PREFIX == <<"server">>

RoomChannelName(server_id, room_id) == ROOM_CHANNEL_PREFIX \o <<":">> \o server_id \o <<":">> \o room_id
DmChannelName(conversation_id) == DM_CHANNEL_PREFIX \o <<":">> \o conversation_id
UserChannelName(user_id) == USER_CHANNEL_PREFIX \o <<":">> \o user_id
ServerChannelName(server_id) == SERVER_CHANNEL_PREFIX \o <<":">> \o server_id

----------------------------------------------------------------------------
(* RealtimeService.generate_token_request *)

NoTokenRequest == [ok |-> FALSE]
TTL_SECONDS == 3600

RECURSIVE AddRoomCapabilities(_, _)
AddRoomCapabilities(capabilities, user_rooms) ==
    IF user_rooms = <<>> THEN capabilities
    ELSE LET room_info == Head(user_rooms)
             next == IF Contains(room_info, ":")
                     THEN LET parts == SplitOnce(room_info)
                          IN DictSet(capabilities, RoomChannelName(parts[1], parts[2]),
                                     <<"subscribe", "publish">>)
                     ELSE capabilities
         IN AddRoomCapabilities(next, Tail(user_rooms))

\* (mutant) permissions appended to those the channel already has
RECURSIVE AddDmCapabilitiesAppending(_, _)
AddDmCapabilitiesAppending(capabilities, user_conversations) ==
    IF user_conversations = <<>> THEN capabilities
    ELSE LET channel_name == DmChannelName(Head(user_conversations))
             had == IF channel_name \in DOMAIN capabilities THEN capabilities[channel_name]
                    ELSE <<>>
         IN AddDmCapabilitiesAppending(
                DictSet(capabilities, channel_name, had \o <<"subscribe", "publish">>),
                Tail(user_conversations))

RECURSIVE AddDmCapabilities(_, _)
AddDmCapabilities(capabilities, user_conversations) ==
    IF user_conversations = <<>> THEN capabilities
    ELSE AddDmCapabilities(
            DictSet(capabilities, DmChannelName(Head(user_conversations)),
                    <<"subscribe", "publish">>),
            Tail(user_conversations))

\* (mutant) server channels granted publish as well
ServerPermissionsWithPublish == <<"subscribe", "publish">>
ServerPermissions == <<"subscribe">>

RECURSIVE AddServerCapabilities(_, _)
AddServerCapabilities(capabilities, user_servers) ==
    IF user_servers = <<>> THEN capabilities
    ELSE AddServerCapabilities(
            DictSet(capabilities, ServerChannelName(Head(user_servers)), ServerPermissions),
            Tail(user_servers))

BuildCapabilities(user_id, user_servers, user_rooms, user_conversations) ==
    LET c0 == [k \in {UserChannelName(Str(user_id))} |-> <<"subscribe">>]
        c1 == AddRoomCapabilities(c0, user_rooms)
        c2 == AddDmCapabilities(c1, user_conversations)
    IN AddServerCapabilities(c2, user_servers)

\* signs: whether client.auth.create_token_request returns (TRUE) or raises
generate_token_request(client, user_id, user_servers, user_rooms, user_conversations, signs) ==
    IF ~client THEN NoTokenRequest
    ELSE IF ~signs THEN NoTokenRequest
    ELSE [ok |-> TRUE,
          client_id |-> Str(user_id),
          capability |-> BuildCapabilities(user_id, user_servers, user_rooms, user_conversations),
          ttl |-> TTL_SECONDS * 1000]

\* (mutant) the two ids in the other order
RoomInfoRoomFirst(server_id, room_id) == Str(room_id) \o <<":">> \o Str(server_id)
\* get_ably_token's encoding of the room memberships: f"{room.server_id}:{user_room.room_id}"
RoomInfo(server_id, room_id) == Str(server_id) \o <<":">> \o Str(room_id)

RECURSIVE RoomChannels(_)
RoomChannels(pairs) ==
    IF pairs = <<>> THEN <<>>
    ELSE <<RoomInfo(Head(pairs)[1], Head(pairs)[2])>> \o RoomChannels(Tail(pairs))

StrList(ids) == [i \in 1..Len(ids) |-> Str(ids[i])]

----------------------------------------------------------------------------
(* Specification SpecCap: the capability builder on arbitrary membership    *)
(* lists (any order, duplicates allowed), encoded as get_ably_token does.   *)

Idle == [op |-> "none"]
NoneCounted == [u \in Users |-> 0]   \* no create_server request is under way

InitCap ==
    /\ ablyConfigured \in BOOLEAN
    /\ servers = {} /\ userServers = {} /\ rooms = {} /\ userRooms = {}
    /\ convMembers = {} /\ friendships = {} /\ messages = {} /\ reactions = {}
    /\ tlog = <<>>
    /\ \E u \in Users, srvs \in SeqsUpTo(ServerIds, MaxList),
          pairs \in SeqsUpTo(ServerIds \X RoomIds, MaxList),
          convs \in SeqsUpTo(ConversationIds, MaxList) :
            call = [op |-> "generate_token_request", user |-> u, servers |-> srvs,
                    rooms |-> pairs, conversations |-> convs]
    /\ ret = Idle /\ counted = NoneCounted

\* realtime.py builds the three lists and calls generate_token_request once
BuildToken ==
    /\ call.op = "generate_token_request" /\ ret = Idle
    /\ \E signs \in BOOLEAN :
        ret' = generate_token_request(ablyConfigured, call.user, StrList(call.servers),
                                      RoomChannels(call.rooms), StrList(call.conversations),
                                      signs)
    /\ UNCHANGED <<ablyConfigured, dbVars, tlog, call, counted>>

NextCap == BuildToken

SpecCap == InitCap /\ [][NextCap]_vars

----------------------------------------------------------------------------
(* C1: the capability map of a token request is exactly user:{U} ->        *)
(* [subscribe], room:{S}:{R} -> [subscribe, publish] per room membership,  *)
(* dm:{C} -> [subscribe, publish] per conversation, server:{S} ->          *)
(* [subscribe] per server, and nothing else; with empty lists it is the    *)
(* single personal entry; client_id is the user.                           *)

ExpectedChannels(u, srvs, pairs, convs) ==
    {<<"user", ":", u>>}
    \cup {<<"room", ":", p[1], ":", p[2]>> : p \in Range(pairs)}
    \cup {<<"dm", ":", c>> : c \in Range(convs)}
    \cup {<<"server", ":", s>> : s \in Range(srvs)}

ExpectedPermissions(ch) ==
    IF ch[1] \in {"room", "dm"} THEN <<"subscribe", "publish">> ELSE <<"subscribe">>

----------------------------------------------------------------------------
(* Database queries used by the endpoints *)

SetToSeq(S) == CHOOSE f \in [1..Cardinality(S) -> S] : Range(f) = S

IsServerMember(u, s) == \E us \in userServers : us.user_id = u /\ us.server_id = s
ServerRole(u, s) == (CHOOSE us \in userServers : us.user_id = u /\ us.server_id = s).role
IsRoomMember(u, r) == \E ur \in userRooms : ur.user_id = u /\ ur.room_id = r
RoomRole(u, r) == (CHOOSE ur \in userRooms : ur.user_id = u /\ ur.room_id = r).role
RoomExists(r) == \E rm \in rooms : rm.id = r
RoomRow(r) == CHOOSE rm \in rooms : rm.id = r
ServerExists(s) == \E sv \in servers : sv.id = s
IsConversationMember(u, c) == [conversation_id |-> c, user_id |-> u] \in convMembers
Conversations == {m.conversation_id : m \in convMembers}

\* get_ably_token: the three membership queries
UserServerIds(u) == {us.server_id : us \in {x \in userServers : x.user_id = u}}
UserRoomPairs(u) ==
    {<<RoomRow(ur.room_id).server_id, ur.room_id>> :
        ur \in {x \in userRooms : x.user_id = u /\ RoomExists(x.room_id)}}
UserConversationIds(u) == {m.conversation_id : m \in {x \in convMembers : x.user_id = u}}

----------------------------------------------------------------------------
(* FriendshipService *)

FriendshipStatus == {"pending", "accepted", "rejected"}

are_friends(user1_id, user2_id) ==
    \E f \in friendships :
        /\ f.status = "accepted"
        /\ \/ (f.user_id = user1_id /\ f.friend_id = user2_id)
           \/ (f.user_id = user2_id /\ f.friend_id = user1_id)

are_in_same_server(user1_id, user2_id) ==
    \E us \in userServers :
        us.user_id = user2_id /\ us.server_id \in UserServerIds(user1_id)

\* (mutant) the permission check without the lookup of FriendshipStatus.BLOCKED
\* and without the friends-or-same-server rule
can_send_dm_anyone(sender_id, recipient_id) ==
    [raised |-> FALSE, can |-> TRUE]

\* FriendshipStatus.BLOCKED is evaluated first: the enum has no such member, so
\* the attribute lookup raises AttributeError before any query runs.
can_send_dm(sender_id, recipient_id) ==
    IF "blocked" \notin FriendshipStatus THEN [raised |-> TRUE, can |-> FALSE]
    ELSE IF \E f \in friendships :
                /\ f.status = "blocked"
                /\ \/ (f.user_id = sender_id /\ f.friend_id = recipient_id)
                   \/ (f.user_id = recipient_id /\ f.friend_id = sender_id)
         THEN [raised |-> FALSE, can |-> FALSE]
    ELSE IF are_friends(sender_id, recipient_id) THEN [raised |-> FALSE, can |-> TRUE]
    ELSE IF are_in_same_server(sender_id, recipient_id) THEN [raised |-> FALSE, can |-> TRUE]
    ELSE [raised |-> FALSE, can |-> FALSE]

----------------------------------------------------------------------------
(* RealtimeService: publishing                                              *)
(*                                                                          *)
(* An operation of the publisher yields an outcome: the value it returned,  *)
(* whether it raised instead, and the calls it made on the transport        *)
(* client.  The transport's behaviour on one publish is an input.           *)

TransportBehaviours == {"ok", "get_raises", "publish_raises"}
Transports == [1..MaxList -> TransportBehaviours]

Return(result, calls) == [result |-> result, raised |-> FALSE, calls |-> calls]
Raise(calls) == [result |-> FALSE, raised |-> TRUE, calls |-> calls]

\* (mutant) no except clause: the exception propagates
CatchNothing(o) == o
\* try: ... except Exception as e: logger.error(...); return False
Catch(o) == IF o.raised THEN Return(FALSE, o.calls) ELSE o

Envelope(event_type, data, user_id) ==
    [type |-> event_type, data |-> data, timestamp |-> "utcnow", user_id |-> user_id]

\* channel = self.client.channels.get(channel_name); channel.publish(event_type, event)
\* (mutant) a publish that raised is tried once more
ChannelPublishRetrying(channel_name, event_type, data, user_id, t) ==
    LET get == [op |-> "channels.get", channel |-> channel_name,
                outcome |-> IF t = "get_raises" THEN "raised" ELSE "ok"]
        pub == [op |-> "publish", channel |-> channel_name, name |-> event_type,
                event |-> Envelope(event_type, data, user_id),
                outcome |-> IF t = "publish_raises" THEN "raised" ELSE "ok"]
    IN IF t = "get_raises" THEN Raise(<<get>>)
       ELSE IF t = "publish_raises" THEN Return(TRUE, <<get, pub, [pub EXCEPT !.outcome = "ok"]>>)
       ELSE Return(TRUE, <<get, pub>>)
ChannelPublish(channel_name, event_type, data, user_id, t) ==
    LET get == [op |-> "channels.get", channel |-> channel_name,
                outcome |-> IF t = "get_raises" THEN "raised" ELSE "ok"]
        pub == [op |-> "publish", channel |-> channel_name, name |-> event_type,
                event |-> Envelope(event_type, data, user_id),
                outcome |-> IF t = "publish_raises" THEN "raised" ELSE "ok"]
    IN IF t = "get_raises" THEN Raise(<<get>>)
       ELSE IF t = "publish_raises" THEN Raise(<<get, pub>>)
       ELSE Return(TRUE, <<get, pub>>)

publish_to_room(client, server_id, room_id, event_type, data, user_id, t) ==
    IF ~client THEN Return(FALSE, <<>>)
    ELSE Catch(ChannelPublish(RoomChannelName(server_id, room_id), event_type, data, user_id, t))

publish_to_dm(client, conversation_id, event_type, data, user_id, t) ==
    IF ~client THEN Return(FALSE, <<>>)
    ELSE Catch(ChannelPublish(DmChannelName(conversation_id), event_type, data, user_id, t))

\* the envelope's user_id is the user_id parameter: the owner of the channel
publish_to_user(client, user_id, event_type, data, t) ==
    IF ~client THEN Return(FALSE, <<>>)
    ELSE Catch(ChannelPublish(UserChannelName(user_id), event_type, data, user_id, t))

publish_to_server(client, server_id, event_type, data, user_id, t) ==
    IF ~client THEN Return(FALSE, <<>>)
    ELSE Catch(ChannelPublish(ServerChannelName(server_id), event_type, data, user_id, t))

(* Message events *)

\* (mutant) a message with a room and a conversation published on both channels
publish_message_created_both(client, message_data, server_id, room_id, conversation_id, user_id, t) ==
    LET r == publish_to_room(client, server_id, room_id, "message.created", message_data, user_id, t)
        d == publish_to_dm(client, conversation_id, "message.created", message_data, user_id, t)
    IN Catch(IF Truthy(room_id) /\ Truthy(server_id)
             THEN IF Truthy(conversation_id) THEN Return(r.result /\ d.result, r.calls \o d.calls)
                  ELSE r
             ELSE IF Truthy(conversation_id) THEN d
             ELSE Return(FALSE, <<>>))
publish_message_created(client, message_data, server_id, room_id, conversation_id, user_id, t) ==
    Catch(IF Truthy(room_id) /\ Truthy(server_id)
          THEN publish_to_room(client, server_id, room_id, "message.created", message_data, user_id, t)
          ELSE IF Truthy(conversation_id)
          THEN publish_to_dm(client, conversation_id, "message.created", message_data, user_id, t)
          ELSE Return(FALSE, <<>>))

publish_message_updated(client, message_data, server_id, room_id, conversation_id, user_id, t) ==
    Catch(IF Truthy(room_id) /\ Truthy(server_id)
          THEN publish_to_room(client, server_id, room_id, "message.updated", message_data, user_id, t)
          ELSE IF Truthy(conversation_id)
          THEN publish_to_dm(client, conversation_id, "message.updated", message_data, user_id, t)
          ELSE Return(FALSE, <<>>))

publish_message_deleted(client, message_id, deleted_by, server_id, room_id, conversation_id, t) ==
    LET data == [message_id |-> message_id, deleted_by |-> deleted_by]
    IN Catch(IF Truthy(room_id) /\ Truthy(server_id)
             THEN publish_to_room(client, server_id, room_id, "message.deleted", data, deleted_by, t)
             ELSE IF Truthy(conversation_id)
             THEN publish_to_dm(client, conversation_id, "message.deleted", data, deleted_by, t)
             ELSE Return(FALSE, <<>>))

(* Reaction events *)

publish_reaction_added(client, message_id, emoji, user_id, username, server_id, room_id, conversation_id, t) ==
    LET data == [message_id |-> message_id, emoji |-> emoji, user_id |-> user_id, username |-> username]
    IN Catch(IF Truthy(room_id) /\ Truthy(server_id)
             THEN publish_to_room(client, server_id, room_id, "reaction.added", data, user_id, t)
             ELSE IF Truthy(conversation_id)
             THEN publish_to_dm(client, conversation_id, "reaction.added", data, user_id, t)
             ELSE Return(FALSE, <<>>))

publish_reaction_removed(client, message_id, emoji, user_id, username, server_id, room_id, conversation_id, t) ==
    LET data == [message_id |-> message_id, emoji |-> emoji, user_id |-> user_id, username |-> username]
    IN Catch(IF Truthy(room_id) /\ Truthy(server_id)
             THEN publish_to_room(client, server_id, room_id, "reaction.removed", data, user_id, t)
             ELSE IF Truthy(conversation_id)
             THEN publish_to_dm(client, conversation_id, "reaction.removed", data, user_id, t)
             ELSE Return(FALSE, <<>>))

(* Typing indicators *)

publish_typing_start(client, user_id, username, server_id, room_id, conversation_id, t) ==
    LET data == [user_id |-> user_id, username |-> username, action |-> "start"]
    IN Catch(IF Truthy(room_id) /\ Truthy(server_id)
             THEN publish_to_room(client, server_id, room_id, "typing.start", data, user_id, t)
             ELSE IF Truthy(conversation_id)
             THEN publish_to_dm(client, conversation_id, "typing.start", data, user_id, t)
             ELSE Return(FALSE, <<>>))

publish_typing_stop(client, user_id, username, server_id, room_id, conversation_id, t) ==
    LET data == [user_id |-> user_id, username |-> username, action |-> "stop"]
    IN Catch(IF Truthy(room_id) /\ Truthy(server_id)
             THEN publish_to_room(client, server_id, room_id, "typing.stop", data, user_id, t)
             ELSE IF Truthy(conversation_id)
             THEN publish_to_dm(client, conversation_id, "typing.stop", data, user_id, t)
             ELSE Return(FALSE, <<>>))

(* Friend events *)

\* requester_data['username'] raises KeyError when the dict has no such key
publish_friend_request(client, target_user_id, requester_data, t) ==
    Catch(IF "username" \notin DOMAIN requester_data THEN Raise(<<>>)
          ELSE publish_to_user(client, target_user_id, "friend.request",
                  [requester |-> requester_data,
                   message |-> <<requester_data.username, " sent you a friend request">>], t))

publish_friend_accepted(client, target_user_id, accepter_data, t) ==
    Catch(IF "username" \notin DOMAIN accepter_data THEN Raise(<<>>)
          ELSE publish_to_user(client, target_user_id, "friend.accepted",
                  [accepter |-> accepter_data,
                   message |-> <<accepter_data.username, " accepted your friend request">>], t))

publish_friend_removed(client, target_user_id, remover_data, t) ==
    Catch(IF "username" \notin DOMAIN remover_data THEN Raise(<<>>)
          ELSE publish_to_user(client, target_user_id, "friend.removed",
                  [remover |-> remover_data,
                   message |-> <<remover_data.username, " removed you as a friend">>], t))

\* a loop that gives up at the first push that fails
RECURSIVE PublishUntilFailure(_, _, _, _, _, _)
PublishUntilFailure(client, friend_user_ids, event_type, data, ts, sofar) ==
    IF friend_user_ids = <<>> THEN sofar
    ELSE LET r == publish_to_user(client, Head(friend_user_ids), event_type, data, Head(ts))
         IN IF r.raised THEN Raise(sofar.calls \o r.calls)
            ELSE IF ~r.result THEN Return(FALSE, sofar.calls \o r.calls)
            ELSE PublishUntilFailure(client, Tail(friend_user_ids), event_type, data, Tail(ts),
                                     Return(TRUE, sofar.calls \o r.calls))

\* success = True; for friend_id in friend_user_ids: result = await
\* self.publish_to_user(...); if not result: success = False
\* The i-th push meets the i-th behaviour of the transport in ts.
RECURSIVE PublishToEach(_, _, _, _, _, _)
PublishToEach(client, friend_user_ids, event_type, data, ts, sofar) ==
    IF friend_user_ids = <<>> THEN sofar
    ELSE LET r == publish_to_user(client, Head(friend_user_ids), event_type, data, Head(ts))
         IN IF r.raised THEN Raise(sofar.calls \o r.calls)
            ELSE PublishToEach(client, Tail(friend_user_ids), event_type, data, Tail(ts),
                               Return(sofar.result /\ r.result, sofar.calls \o r.calls))

publish_friend_online(client, friend_user_ids, user_data, ts) ==
    Catch(PublishToEach(client, friend_user_ids, "friend.online",
                        [user |-> user_data, status |-> "online"], ts, Return(TRUE, <<>>)))

publish_friend_offline(client, friend_user_ids, user_data, ts) ==
    Catch(PublishToEach(client, friend_user_ids, "friend.offline",
                        [user |-> user_data, status |-> "offline"], ts, Return(TRUE, <<>>)))

(* Presence *)

publish_user_presence(client, user_id, status, user_data, friend_user_ids, ts) ==
    Catch(IF friend_user_ids = <<>> THEN Return(TRUE, <<>>)
          ELSE PublishToEach(client, friend_user_ids, "presence." \o status,
                             [user |-> user_data, status |-> status, timestamp |-> "utcnow"],
                             ts, Return(TRUE, <<>>)))

(* Legacy names and server / room notifications *)

send_friend_request_notification(client, target_user_id, requester_data, t) ==
    publish_friend_request(client, target_user_id, requester_data, t)

send_friend_accepted_notification(client, target_user_id, accepter_data, t) ==
    publish_friend_accepted(client, target_user_id, accepter_data, t)

send_friend_removed_notification(client, target_user_id, remover_data, t) ==
    publish_friend_removed(client, target_user_id, remover_data, t)

send_server_notification(client, target_user_id, event_type, server_data, t) ==
    publish_to_user(client, target_user_id, "server." \o event_type, server_data, t)

send_room_notification(client, target_user_id, event_type, room_data, t) ==
    publish_to_user(client, target_user_id, "room." \o event_type, room_data, t)

----------------------------------------------------------------------------
(* Specification SpecPub: one call of a publish operation of RealtimeService *)
(* with arbitrary arguments, under every behaviour of the transport.         *)

OptionalIds(S) == {None, <<>>} \cup {Str(x) : x \in S}
UserData(u) == [id |-> Str(u), username |-> u]
Statuses == {"online", "offline", "away", "busy"}

RawOps == {"publish_to_room", "publish_to_dm", "publish_to_user", "publish_to_server"}
DualTargetOps == {"publish_message_created", "publish_message_updated", "publish_message_deleted",
                  "publish_reaction_added", "publish_reaction_removed",
                  "publish_typing_start", "publish_typing_stop"}
FriendOps == {"publish_friend_request", "publish_friend_accepted", "publish_friend_removed"}
FanOutOps == {"publish_friend_online", "publish_friend_offline", "publish_user_presence"}
NotificationOps == {"send_server_notification", "send_room_notification"}

PubCalls ==
    [op : RawOps, server_id : {Str("s1")}, room_id : {Str("r1")}, conversation_id : {Str("c1")},
     target : {Str("bob")}, event_type : {"message.created", "custom.event"},
     user_id : {None, Str("alice")}]
    \cup [op : DualTargetOps, server_id : OptionalIds({"s1"}), room_id : OptionalIds({"r1"}),
          conversation_id : OptionalIds({"c1"}), user_id : {Str("alice")}]
    \cup [op : FriendOps, target : {Str(u) : u \in Users},
          actor : {UserData(u) : u \in Users} \cup {[id |-> Str("alice")]}]
    \cup [op : FanOutOps, user : Users, status : Statuses,
          friend_user_ids : {StrList(l) : l \in SeqsUpTo(Users, MaxList)}]
    \cup [op : NotificationOps, target : {Str(u) : u \in Users},
          event_type : {"server_created", "user_joined_room"}]

\* the operation named by call record c, on a transport that behaves as ts
PublisherCall(c, client, ts) ==
    LET t == ts[1]
        msg == [id |-> "m1"]
    IN CASE c.op = "publish_to_room" ->
              publish_to_room(client, c.server_id, c.room_id, c.event_type, msg, c.user_id, t)
         [] c.op = "publish_to_dm" ->
              publish_to_dm(client, c.conversation_id, c.event_type, msg, c.user_id, t)
         [] c.op = "publish_to_user" ->
              publish_to_user(client, c.target, c.event_type, msg, t)
         [] c.op = "publish_to_server" ->
              publish_to_server(client, c.server_id, c.event_type, msg, c.user_id, t)
         [] c.op = "publish_message_created" ->
              publish_message_created(client, msg, c.server_id, c.room_id, c.conversation_id, c.user_id, t)
         [] c.op = "publish_message_updated" ->
              publish_message_updated(client, msg, c.server_id, c.room_id, c.conversation_id, c.user_id, t)
         [] c.op = "publish_message_deleted" ->
              publish_message_deleted(client, "m1", c.user_id, c.server_id, c.room_id, c.conversation_id, t)
         [] c.op = "publish_reaction_added" ->
              publish_reaction_added(client, "m1", "thumbsup", c.user_id, "alice",
                                     c.server_id, c.room_id, c.conversation_id, t)
         [] c.op = "publish_reaction_removed" ->
              publish_reaction_removed(client, "m1", "thumbsup", c.user_id, "alice",
                                       c.server_id, c.room_id, c.conversation_id, t)
         [] c.op = "publish_typing_start" ->
              publish_typing_start(client, c.user_id, "alice", c.server_id, c.room_id, c.conversation_id, t)
         [] c.op = "publish_typing_stop" ->
              publish_typing_stop(client, c.user_id, "alice", c.server_id, c.room_id, c.conversation_id, t)
         [] c.op = "publish_friend_request" -> send_friend_request_notification(client, c.target, c.actor, t)
         [] c.op = "publish_friend_accepted" -> send_friend_accepted_notification(client, c.target, c.actor, t)
         [] c.op = "publish_friend_removed" -> send_friend_removed_notification(client, c.target, c.actor, t)
         [] c.op = "publish_friend_online" ->
              publish_friend_online(client, c.friend_user_ids, UserData(c.user), ts)
         [] c.op = "publish_friend_offline" ->
              publish_friend_offline(client, c.friend_user_ids, UserData(c.user), ts)
         [] c.op = "publish_user_presence" ->
              publish_user_presence(client, Str(c.user), c.status, UserData(c.user), c.friend_user_ids, ts)
         [] c.op = "send_server_notification" ->
              send_server_notification(client, c.target, c.event_type, [id |-> Str("s1")], t)
         [] c.op = "send_room_notification" ->
              send_room_notification(client, c.target, c.event_type, [id |-> Str("r1")], t)

InitPub ==
    /\ ablyConfigured \in BOOLEAN
    /\ servers = {} /\ userServers = {} /\ rooms = {} /\ userRooms = {}
    /\ convMembers = {} /\ friendships = {} /\ messages = {} /\ reactions = {}
    /\ tlog = <<>>
    /\ call \in PubCalls
    /\ ret = Idle /\ counted = NoneCounted

Publish(ops) ==
    /\ call.op \in ops /\ ret = Idle
    /\ \E ts \in Transports :
        LET o == PublisherCall(call, ablyConfigured, ts)
        IN /\ ret' = [op |-> "returned", result |-> o.result, raised |-> o.raised]
           /\ tlog' = o.calls
    /\ UNCHANGED <<ablyConfigured, dbVars, call, counted>>

PublishRaw == Publish(RawOps)
PublishDualTarget == Publish(DualTargetOps)
PublishFriendEvent == Publish(FriendOps)
PublishFanOut == Publish(FanOutOps)
PublishNotification == Publish(NotificationOps)

NextPub ==
    \/ PublishRaw
    \/ PublishDualTarget
    \/ PublishFriendEvent
    \/ PublishFanOut
    \/ PublishNotification

SpecPub == InitPub /\ [][NextPub]_vars

----------------------------------------------------------------------------
(* Reading the transport log *)

PublishIndexes == {i \in 1..Len(tlog) : tlog[i].op = "publish"}
PublisherOps == RawOps \cup DualTargetOps \cup FriendOps \cup FanOutOps \cup NotificationOps
Returned == call.op \in PublisherOps /\ ret # Idle

(* C5: every publish operation of RealtimeService (the four publish_to_*    *)
(* operations, every typed wrapper and every fan-out helper) returns a      *)
(* boolean and never raises, whether the transport is configured and        *)
(* succeeds, is not configured, or raises on channel lookup or on publish.  *)
C5_PublishNeverRaises ==
    Returned => (~ret.raised /\ ret.result \in BOOLEAN)

C5_Witness ==
    /\ Returned /\ call.op = "publish_user_presence" /\ ablyConfigured
    /\ Len(call.friend_user_ids) = 2
    /\ \E i \in 1..Len(tlog) : tlog[i].op = "channels.get" /\ tlog[i].outcome = "raised"
    /\ \E i \in PublishIndexes : tlog[i].outcome = "raised"
    /\ ~ret.raised /\ ret.result = FALSE

(* C7: a message, reaction or typing event is pushed to one channel only,   *)
(* never to both a room channel and a DM channel: to room:{server}:{room}   *)
(* when a room and its server are given (even if a conversation is given    *)
(* too), otherwise to dm:{conversation}; and it is pushed exactly once when *)
(* the target resolves and the transport is configured and finds the        *)
(* channel.                                                                 *)
Given(s) == s \notin {<<"None">>, <<>>}
RoomTarget(c) == Given(c.room_id) /\ Given(c.server_id)
ExpectedTarget(c) ==
    IF RoomTarget(c) THEN <<"room", ":">> \o c.server_id \o <<":">> \o c.room_id
    ELSE <<"dm", ":">> \o c.conversation_id

C8_UnresolvedTargetFails ==
    (Returned /\ call.op \in DualTargetOps /\ ~RoomTarget(call) /\ ~Given(call.conversation_id)) =>
        (ret.result = FALSE /\ ~ret.raised /\ tlog = <<>>)

C8_Witness ==
    /\ Returned /\ call.op = "publish_message_deleted" /\ ablyConfigured
    /\ call.room_id = <<"r1">> /\ call.server_id = <<"None">> /\ call.conversation_id = <<>>
    /\ ret.result = FALSE /\ tlog = <<>>

(* C9: every envelope handed to the transport has exactly the fields type,  *)
(* data, timestamp and user_id; its type is the event name given to the     *)
(* transport; and its user_id is the user who originated the event or null, *)
(* never the recipient.                                                     *)
Originator(c) ==
    CASE c.op \in DualTargetOps -> c.user_id
      [] c.op \in FriendOps -> c.actor.id
      [] c.op \in FanOutOps -> Str(c.user)
      [] c.op \in NotificationOps -> c.target
      [] c.op = "publish_to_user" -> None
      [] OTHER -> c.user_id

C9_EnvelopeOriginator ==
    Returned =>
        \A i \in PublishIndexes :
            /\ DOMAIN tlog[i].event = {"type", "data", "timestamp", "user_id"}
            /\ tlog[i].event.type = tlog[i].name
            /\ tlog[i].event.user_id \in {None, Originator(call)}

----------------------------------------------------------------------------
(* Endpoints.  A handler maps the request and the rows it reads to an HTTP   *)
(* response, the rows after its commit, and the transport calls made by the  *)
(* background task it scheduled.                                             *)

DB == [servers |-> servers, userServers |-> userServers, rooms |-> rooms, userRooms |-> userRooms,
       convMembers |-> convMembers, friendships |-> friendships, messages |-> messages,
       reactions |-> reactions]

HTTPException(status_code, detail) ==
    [status |-> status_code, body |-> [detail |-> detail], db |-> DB, calls |-> <<>>]
Respond(body, db) == [status |-> 200, body |-> body, db |-> db, calls |-> <<>>]

\* (mutant) the notification awaited inside the request: a push that fails, or
\* is not made, fails the request and discards its changes
add_task_awaited(response, task) ==
    IF task.calls = <<>> \/ \E i \in 1..Len(task.calls) : task.calls[i].outcome = "raised"
    THEN [HTTPException(500, "Failed to publish") EXCEPT !.calls = task.calls]
    ELSE [response EXCEPT !.calls = task.calls]
\* background_tasks.add_task(...): the task runs after the response is sent
add_task(response, task) == [response EXCEPT !.calls = task.calls]

\* async def send_..._notification: try: await <publish> except Exception: logger.error(...)
Logged(o) == [raised |-> FALSE, calls |-> o.calls]

Id(s) == s[1]   \* the row id named by a request string

(* realtime.py *)

get_ably_token(current_user, client, signs) ==
    LET server_ids == StrList(SetToSeq(UserServerIds(current_user)))
        room_channels == RoomChannels(SetToSeq(UserRoomPairs(current_user)))
        conversation_ids == StrList(SetToSeq(UserConversationIds(current_user)))
        token_request == generate_token_request(client, current_user, server_ids, room_channels,
                                                conversation_ids, signs)
    IN IF ~token_request.ok THEN HTTPException(500, "Failed to generate Ably token")
       ELSE Respond(token_request, DB)

(* servers.py *)

MaxOwnedServers == 3

\* the count query of create_server: the user's user_servers rows with role owner
OwnedServerCount(u) == Cardinality({us \in userServers : us.user_id = u /\ us.role = "owner"})

server_limit_reached(current_user) == OwnedServerCount(current_user) >= MaxOwnedServers

send_server_created_notification(creator, server_id, client, t) ==
    Logged(send_server_notification(client, Str(creator), "server_created",
                                    [id |-> Str(server_id)], t))

\* create_server after its limit check: the server row, the creator's owner
\* row, the commit and the notification; ids are the ids (and access codes)
\* the database can give the new row
insert_server(current_user, ids, client, t) ==
    LET server == CHOOSE sv \in ids : ~ServerExists(sv)
    IN add_task(
          Respond([server_id |-> Str(server)],
                  [DB EXCEPT !.servers = @ \cup {[id |-> server, created_by |-> current_user]},
                             !.userServers = @ \cup {[user_id |-> current_user,
                                                       server_id |-> server,
                                                       role |-> "owner"]}]),
          send_server_created_notification(current_user, server, client, t))

create_server(current_user, ids, client, t) ==
    IF server_limit_reached(current_user)
    THEN HTTPException(400, "You have reached the maximum limit of 3 servers")
    ELSE insert_server(current_user, ids, client, t)

send_user_joined_server_notification(user, server_id, client, t) ==
    Logged(send_server_notification(client, Str(user), "user_joined_server",
                                    [id |-> Str(server_id), member |-> UserData(user)], t))

join_server(current_user, access_code, client, t) ==
    IF ~ServerExists(access_code) THEN HTTPException(404, "Invalid access code")
    ELSE IF IsServerMember(current_user, access_code)
    THEN HTTPException(400, "You are already a member of this server")
    ELSE add_task(
            Respond([server_id |-> Str(access_code)],
                    [DB EXCEPT !.userServers = @ \cup {[user_id |-> current_user,
                                                        server_id |-> access_code,
                                                        role |-> "member"]}]),
            send_user_joined_server_notification(current_user, access_code, client, t))

\* (mutant) leave_server without the owner check
leave_server_whatever_role(current_user, server_id) ==
    IF ~IsServerMember(current_user, server_id)
    THEN HTTPException(404, "You are not a member of this server")
    ELSE Respond([server_id |-> Str(server_id)],
                 [DB EXCEPT !.userServers = {us \in @ : ~(us.user_id = current_user
                                                          /\ us.server_id = server_id)}])

\* only the user_servers row is deleted: the user's user_rooms rows stay
leave_server(current_user, server_id) ==
    IF ~IsServerMember(current_user, server_id)
    THEN HTTPException(404, "You are not a member of this server")
    ELSE IF ServerRole(current_user, server_id) = "owner"
    THEN HTTPException(400, "Server owner cannot leave")
    ELSE Respond([server_id |-> Str(server_id)],
                 [DB EXCEPT !.userServers = {us \in @ : ~(us.user_id = current_user
                                                          /\ us.server_id = server_id)}])

(* rooms.py *)

send_room_created_notification(creator, room_id, server_id, client, t) ==
    Logged(send_room_notification(client, Str(creator), "room_created",
                                  [id |-> Str(room_id), server_id |-> Str(server_id),
                                   creator |-> UserData(creator)], t))

\* the request names a room name that no room of the server has yet, so the
\* duplicate-name answer (400) is not among the model's responses; ids are
\* the ids the database can give the new row
create_room(current_user, server_id, is_private, ids, client, t) ==
    IF ~(IsServerMember(current_user, server_id)
         /\ ServerRole(current_user, server_id) \in {"owner", "admin"})
    THEN HTTPException(403, "You don't have permission to create rooms in this server")
    ELSE IF ~ServerExists(server_id) THEN HTTPException(404, "Server not found")
    ELSE LET room == CHOOSE r \in ids : ~RoomExists(r)
         IN add_task(
               Respond([room_id |-> Str(room)],
                       [DB EXCEPT !.rooms = @ \cup {[id |-> room, server_id |-> server_id,
                                                     is_private |-> is_private,
                                                     created_by |-> current_user]},
                                  !.userRooms = @ \cup {[user_id |-> current_user,
                                                         room_id |-> room, role |-> "owner"]}]),
               send_room_created_notification(current_user, room, server_id, client, t))

send_user_joined_room_notification(user, room_id, client, t) ==
    Logged(send_room_notification(client, Str(user), "user_joined_room",
                                  [id |-> Str(room_id), member |-> UserData(user)], t))

join_room(current_user, room_id, client, t) ==
    IF ~RoomExists(room_id) THEN HTTPException(404, "Room not found")
    ELSE IF ~IsServerMember(current_user, RoomRow(room_id).server_id)
    THEN HTTPException(403, "You must be a server member to join rooms")
    ELSE IF IsRoomMember(current_user, room_id)
    THEN HTTPException(400, "You are already a member of this room")
    ELSE IF RoomRow(room_id).is_private
    THEN HTTPException(403, "Cannot join private room")
    ELSE add_task(
            Respond([room_id |-> Str(room_id)],
                    [DB EXCEPT !.userRooms = @ \cup {[user_id |-> current_user, room_id |-> room_id,
                                                      role |-> "member"]}]),
            send_user_joined_room_notification(current_user, room_id, client, t))

leave_room(current_user, room_id) ==
    IF ~IsRoomMember(current_user, room_id)
    THEN HTTPException(404, "You are not a member of this room")
    ELSE IF RoomRole(current_user, room_id) = "owner"
    THEN HTTPException(400, "Room owner cannot leave")
    ELSE Respond([room_id |-> Str(room_id)],
                 [DB EXCEPT !.userRooms = {ur \in @ : ~(ur.user_id = current_user
                                                        /\ ur.room_id = room_id)}])

(* messages.py *)

Unset == <<"unset">>                    \* a field the request body does not give
FieldValue(v) == IF v = Unset THEN None ELSE v

\* @field_validator('conversation_id'): pydantic runs it only for a field the
\* request gives, so a body without conversation_id is not checked at all
validate_target(room_id, conversation_id) ==
    IF conversation_id = Unset THEN TRUE
    ELSE /\ ~(~Truthy(room_id) /\ ~Truthy(conversation_id))
         /\ ~(Truthy(room_id) /\ Truthy(conversation_id))

ValidationError == [status |-> 422, body |-> [detail |-> "validation error"], db |-> DB, calls |-> <<>>]

Passed == [ok |-> TRUE]
Denied(error) == [ok |-> FALSE, error |-> error]

validate_room_access(room_id, user) ==
    IF ~RoomExists(Id(room_id)) THEN Denied(HTTPException(404, "Room not found"))
    ELSE LET room == RoomRow(Id(room_id))
             user_room == IsRoomMember(user, Id(room_id))
             user_server == IsServerMember(user, room.server_id)
         IN IF ~user_room /\ ~user_server
            THEN Denied(HTTPException(403, "You don't have access to this room"))
            ELSE IF room.is_private /\ ~user_room
            THEN Denied(HTTPException(403, "You don't have access to this private room"))
            ELSE Passed

validate_conversation_access(conversation_id, user) ==
    IF Id(conversation_id) \notin Conversations
    THEN Denied(HTTPException(404, "Conversation not found"))
    ELSE IF ~IsConversationMember(user, Id(conversation_id))
    THEN Denied(HTTPException(403, "You are not a member of this conversation"))
    ELSE Passed

\* if room_id: <room check> elif conversation_id: <conversation check>
validate_target_access(room_id, conversation_id, user) ==
    IF Truthy(room_id) THEN validate_room_access(room_id, user)
    ELSE IF Truthy(conversation_id) THEN validate_conversation_access(conversation_id, user)
    ELSE Passed

MessageExists(message_id) == \E m \in messages : m.id = message_id
MessageOf(message_id) == CHOOSE m \in messages : m.id = message_id

validate_message_access(message_id, user) ==
    IF ~MessageExists(message_id) THEN Denied(HTTPException(404, "Message not found"))
    ELSE validate_target_access(MessageOf(message_id).room_id,
                                MessageOf(message_id).conversation_id, user)

\* Message(user_id=..., room_id=..., conversation_id=...): the row of a message
MessageRow(id, user_id, room_id, conversation_id) ==
    [id |-> id, user_id |-> user_id, room_id |-> room_id, conversation_id |-> conversation_id,
     edited |-> FALSE]

MessageResponse(message) ==
    [id |-> message.id, user_id |-> Str(message.user_id), room_id |-> message.room_id,
     conversation_id |-> message.conversation_id, edited |-> message.edited]

\* server_id = str(room.server_id) if room else None, for a message of a room
ServerIdOfRoom(room_id) ==
    IF Truthy(room_id) /\ RoomExists(Id(room_id)) THEN Str(RoomRow(Id(room_id)).server_id)
    ELSE None

NewMessageId == CHOOSE i \in 1..MaxMessages :
                    /\ ~MessageExists(i)
                    /\ \A j \in 1..(i - 1) : MessageExists(j)

send_message_created_notification(message, user, server_id, client, t) ==
    Logged(publish_message_created(client, message, server_id, message.room_id,
                                   message.conversation_id, Str(user), t))

send_message_updated_notification(message, user, server_id, client, t) ==
    Logged(publish_message_updated(client, message, server_id, message.room_id,
                                   message.conversation_id, Str(user), t))

send_message_deleted_notification(message_id, room_id, conversation_id, user, server_id, client, t) ==
    Logged(publish_message_deleted(client, message_id, Str(user), server_id, room_id,
                                   conversation_id, t))

send_reaction_added_notification(message_id, emoji, user, message, server_id, client, t) ==
    Logged(publish_reaction_added(client, message_id, emoji, Str(user), user, server_id,
                                  message.room_id, message.conversation_id, t))

send_reaction_removed_notification(message_id, emoji, user, message, server_id, client, t) ==
    Logged(publish_reaction_removed(client, message_id, emoji, Str(user), user, server_id,
                                    message.room_id, message.conversation_id, t))

send_typing_notification(action, user, room_id, conversation_id, server_id, client, t) ==
    Logged(IF action = "start"
           THEN publish_typing_start(client, Str(user), user, server_id, room_id, conversation_id, t)
           ELSE publish_typing_stop(client, Str(user), user, server_id, room_id, conversation_id, t))

create_message(current_user, room_id, conversation_id_field, client, t) ==
    LET conversation_id == FieldValue(conversation_id_field)
        access == validate_target_access(room_id, conversation_id, current_user)
    IN IF ~validate_target(room_id, conversation_id_field) THEN ValidationError
       ELSE IF ~access.ok THEN access.error
       ELSE LET message == MessageRow(NewMessageId, current_user, room_id, conversation_id)
                message_response == MessageResponse(message)
                server_id == ServerIdOfRoom(room_id)
            IN add_task(Respond(message_response, [DB EXCEPT !.messages = @ \cup {message}]),
                        send_message_created_notification(message_response, current_user,
                                                          server_id, client, t))

update_message(current_user, message_id, client, t) ==
    IF ~MessageExists(message_id) THEN HTTPException(404, "Message not found")
    ELSE IF MessageOf(message_id).user_id # current_user
    THEN HTTPException(403, "You can only edit your own messages")
    ELSE LET message == [MessageOf(message_id) EXCEPT !.edited = TRUE]
             message_response == MessageResponse(message)
             server_id == ServerIdOfRoom(message.room_id)
         IN add_task(Respond(message_response,
                             [DB EXCEPT !.messages = (@ \ {MessageOf(message_id)}) \cup {message}]),
                     send_message_updated_notification(message_response, current_user,
                                                       server_id, client, t))

\* (mutant) the notification scheduled before the ownership check
delete_message_notifying_first(current_user, message_id, client, t) ==
    IF ~MessageExists(message_id) THEN HTTPException(404, "Message not found")
    ELSE LET message == MessageOf(message_id)
             server_id == ServerIdOfRoom(message.room_id)
             task == send_message_deleted_notification(message_id, message.room_id,
                                                       message.conversation_id, current_user,
                                                       server_id, client, t)
         IN IF message.user_id # current_user
            THEN add_task(HTTPException(403, "You can only delete your own messages"), task)
            ELSE add_task(Respond([message_id |-> message_id],
                                  [DB EXCEPT !.messages = @ \ {message},
                                             !.reactions = {r \in @ : r.message_id # message_id}]),
                          task)
\* db.delete(message): the cascade removes the reactions of the message
delete_message(current_user, message_id, client, t) ==
    IF ~MessageExists(message_id) THEN HTTPException(404, "Message not found")
    ELSE IF MessageOf(message_id).user_id # current_user
    THEN HTTPException(403, "You can only delete your own messages")
    ELSE LET message == MessageOf(message_id)
             server_id == ServerIdOfRoom(message.room_id)
         IN add_task(Respond([message_id |-> message_id],
                             [DB EXCEPT !.messages = @ \ {message},
                                        !.reactions = {r \in @ : r.message_id # message_id}]),
                     send_message_deleted_notification(message_id, message.room_id,
                                                       message.conversation_id, current_user,
                                                       server_id, client, t))

add_reaction(current_user, message_id, emoji, client, t) ==
    LET access == validate_message_access(message_id, current_user)
        reaction == [message_id |-> message_id, user_id |-> current_user, emoji |-> emoji]
    IN IF ~access.ok THEN access.error
       ELSE IF reaction \in reactions
       THEN HTTPException(400, "You have already reacted with this emoji")
       ELSE add_task(Respond([message_id |-> message_id],
                             [DB EXCEPT !.reactions = @ \cup {reaction}]),
                     send_reaction_added_notification(message_id, emoji, current_user,
                            MessageOf(message_id),
                            ServerIdOfRoom(MessageOf(message_id).room_id), client, t))

remove_reaction(current_user, message_id, emoji, client, t) ==
    LET access == validate_message_access(message_id, current_user)
        reaction == [message_id |-> message_id, user_id |-> current_user, emoji |-> emoji]
    IN IF ~access.ok THEN access.error
       ELSE IF reaction \notin reactions THEN HTTPException(404, "Reaction not found")
       ELSE add_task(Respond([message_id |-> message_id],
                             [DB EXCEPT !.reactions = @ \ {reaction}]),
                     send_reaction_removed_notification(message_id, emoji, current_user,
                            MessageOf(message_id),
                            ServerIdOfRoom(MessageOf(message_id).room_id), client, t))

\* start_typing and stop_typing differ in the action and the message only
typing(action, current_user, room_id, conversation_id_field, client, t) ==
    LET conversation_id == FieldValue(conversation_id_field)
        access == validate_target_access(room_id, conversation_id, current_user)
    IN IF ~validate_target(room_id, conversation_id_field) THEN ValidationError
       ELSE IF ~access.ok THEN access.error
       ELSE add_task(Respond([message |-> IF action = "start" THEN "Typing indicator started"
                                           ELSE "Typing indicator stopped"], DB),
                     send_typing_notification(action, current_user, room_id, conversation_id,
                                              ServerIdOfRoom(room_id), client, t))

start_typing(current_user, room_id, conversation_id_field, client, t) ==
    typing("start", current_user, room_id, conversation_id_field, client, t)

stop_typing(current_user, room_id, conversation_id_field, client, t) ==
    typing("stop", current_user, room_id, conversation_id_field, client, t)

\* the conversations both users are members of (join, group by, having count = 2)
ExistingConversation(current_user, target_user) ==
    {c \in Conversations : IsConversationMember(current_user, c) /\ IsConversationMember(target_user, c)}

get_or_create_conversation(current_user, user_id) ==
    IF user_id \notin Users THEN HTTPException(404, "User not found")
    ELSE IF user_id = current_user
    THEN HTTPException(400, "Cannot create conversation with yourself")
    ELSE LET dm == can_send_dm(current_user, user_id)
             existing_conversation == ExistingConversation(current_user, user_id)
         IN IF dm.raised THEN HTTPException(500, "Failed to get or create conversation")
            ELSE IF ~dm.can THEN HTTPException(403, "Cannot send DM")
            ELSE IF existing_conversation # {}
            THEN Respond([id |-> Str(CHOOSE c \in existing_conversation : TRUE)], DB)
            ELSE LET conversation == CHOOSE c \in ConversationIds : c \notin Conversations
                 IN Respond([id |-> Str(conversation)],
                            [DB EXCEPT !.convMembers = @ \cup
                                {[conversation_id |-> conversation, user_id |-> current_user],
                                 [conversation_id |-> conversation, user_id |-> user_id]}])

(* friends.py *)

\* the friendship row from one user to another, in that direction only
FriendshipFromTo(u, v) ==
    {f \in friendships : f.user_id = u /\ f.friend_id = v}

\* the friendship row between two users, in either direction
FriendshipBetween(u, v) ==
    {f \in friendships : \/ (f.user_id = u /\ f.friend_id = v)
                         \/ (f.user_id = v /\ f.friend_id = u)}

friends_send_friend_request_notification(requester, target, client, t) ==
    Logged(send_friend_request_notification(client, Str(target), UserData(requester), t))

friends_send_friend_accepted_notification(requester, accepter, client, t) ==
    Logged(send_friend_accepted_notification(client, Str(requester), UserData(accepter), t))

friends_send_friend_removed_notification(remover, removed, client, t) ==
    Logged(send_friend_removed_notification(client, Str(removed), UserData(remover), t))

\* a new row gets a fresh id; the pair of users stands for it
send_friend_request(current_user, user_id, client, t) ==
    IF user_id = current_user
    THEN HTTPException(400, "You cannot send a friend request to yourself")
    ELSE IF user_id \notin Users THEN HTTPException(404, "User not found")
    ELSE LET existing == FriendshipBetween(current_user, user_id)
             existing_friendship == CHOOSE f \in existing : TRUE
             pending(id) == [id |-> id, user_id |-> current_user, friend_id |-> user_id,
                             status |-> "pending"]
             sent(rows) == add_task(Respond([status |-> "pending"], [DB EXCEPT !.friendships = rows]),
                                    friends_send_friend_request_notification(current_user, user_id,
                                                                             client, t))
         IN IF existing # {} /\ existing_friendship.status = "accepted"
            THEN HTTPException(400, "You are already friends with this user")
            ELSE IF existing # {} /\ existing_friendship.status = "pending"
            THEN HTTPException(400, "Friend request already pending")
            ELSE IF existing # {} /\ existing_friendship.status = "rejected"
            THEN sent((friendships \ {existing_friendship}) \cup {pending(existing_friendship.id)})
            ELSE sent(friendships \cup {pending({current_user, user_id})})

\* the pending request with this id that was sent to the current user
PendingRequest(friendship_id, current_user) ==
    {f \in friendships : f.id = friendship_id /\ f.friend_id = current_user /\ f.status = "pending"}

accept_friend_request(current_user, friendship_id, client, t) ==
    IF PendingRequest(friendship_id, current_user) = {}
    THEN HTTPException(404, "Friend request not found or already processed")
    ELSE LET friendship == CHOOSE f \in PendingRequest(friendship_id, current_user) : TRUE
         IN add_task(Respond([status |-> "accepted"],
                             [DB EXCEPT !.friendships =
                                 (@ \ {friendship}) \cup {[friendship EXCEPT !.status = "accepted"]}]),
                     friends_send_friend_accepted_notification(friendship.user_id, current_user,
                                                               client, t))

reject_friend_request(current_user, friendship_id) ==
    IF PendingRequest(friendship_id, current_user) = {}
    THEN HTTPException(404, "Friend request not found or already processed")
    ELSE LET friendship == CHOOSE f \in PendingRequest(friendship_id, current_user) : TRUE
         IN Respond([status |-> "rejected"],
                    [DB EXCEPT !.friendships =
                        (@ \ {friendship}) \cup {[friendship EXCEPT !.status = "rejected"]}])

remove_friend(current_user, friend_id, client, t) ==
    LET accepted == {f \in FriendshipBetween(current_user, friend_id) : f.status = "accepted"}
    IN IF accepted = {} THEN HTTPException(404, "Friendship not found")
       ELSE LET friendship == CHOOSE f \in accepted : TRUE
                friend_user == IF friendship.user_id = current_user THEN friendship.friend_id
                               ELSE friendship.user_id
            IN add_task(Respond([status |-> "removed"],
                                [DB EXCEPT !.friendships = @ \ {friendship}]),
                        friends_send_friend_removed_notification(current_user, friend_user,
                                                                 client, t))

(* presence_service.py and POST /status *)

\* (mutant) the friends query without the status filter
AnyFriendships(user) == {f \in friendships : f.user_id = user \/ f.friend_id = user}
\* Friendship.status == ACCEPTED and (user_id == user.id or friend_id == user.id)
AcceptedFriendships(user) ==
    {f \in friendships : f.status = "accepted" /\ (f.user_id = user \/ f.friend_id = user)}

update_user_status(user, status, client, ts) ==
    LET friends == SetToSeq(AcceptedFriendships(user))
        friend_ids == [i \in 1..Len(friends) |->
                          IF friends[i].user_id = user THEN Str(friends[i].friend_id)
                          ELSE Str(friends[i].user_id)]
    IN Catch(publish_user_presence(client, Str(user), status, UserData(user), friend_ids, ts))

update_user_status_endpoint(current_user, status, client, ts) ==
    LET success == update_user_status(current_user, status, client, ts)
    IN IF ~success.result
       THEN [HTTPException(500, "Failed to update user status") EXCEPT !.calls = success.calls]
       ELSE [Respond([status |-> status], DB) EXCEPT !.calls = success.calls]

----------------------------------------------------------------------------
(* Channel presence: realtime_service.py, presence_service.py, realtime.py  *)

\* channel = self.client.channels.get(channel_name);
\* channel.presence.enter(user_data) / channel.presence.leave(user_data)
\* For a presence call the behaviour "publish_raises" of the transport is the
\* presence operation raising.  The service keeps no record of its own: what
\* it hands to the transport is all that is left of the call.
ChannelPresence(channel_name, action, user_data, t) ==
    LET get == [op |-> "channels.get", channel |-> channel_name,
                outcome |-> IF t = "get_raises" THEN "raised" ELSE "ok"]
        act == [op |-> "presence." \o action, channel |-> channel_name, data |-> user_data,
                outcome |-> IF t = "publish_raises" THEN "raised" ELSE "ok"]
    IN IF t = "get_raises" THEN Raise(<<get>>)
       ELSE IF t = "publish_raises" THEN Raise(<<get, act>>)
       ELSE Return(TRUE, <<get, act>>)

enter_presence(client, user_id, channel_name, user_data, t) ==
    Catch(IF ~client THEN Return(FALSE, <<>>)
          ELSE ChannelPresence(channel_name, "enter", user_data, t))

leave_presence(client, user_id, channel_name, user_data, t) ==
    Catch(IF ~client THEN Return(FALSE, <<>>)
          ELSE ChannelPresence(channel_name, "leave", user_data, t))

\* (mutant) every kind of channel gets a name
PresenceChannelOfAnyKind(channel_type, channel_id) ==
    [known |-> TRUE, name |-> <<channel_type, ":">> \o channel_id]
\* if channel_type == "room": channel_name = f"room:{channel_id}" elif "dm" ...
\* elif "server" ... else: logger.error(...); return False
PresenceChannel(channel_type, channel_id) ==
    IF channel_type = "room" THEN [known |-> TRUE, name |-> <<"room", ":">> \o channel_id]
    ELSE IF channel_type = "dm" THEN [known |-> TRUE, name |-> <<"dm", ":">> \o channel_id]
    ELSE IF channel_type = "server" THEN [known |-> TRUE, name |-> <<"server", ":">> \o channel_id]
    ELSE [known |-> FALSE, name |-> None]

enter_channel_presence(user, channel_type, channel_id, client, t) ==
    LET ch == PresenceChannel(channel_type, channel_id)
        user_data == [id |-> Str(user), username |-> user, entered_at |-> "utcnow"]
    IN Catch(IF ~ch.known THEN Return(FALSE, <<>>)
             ELSE enter_presence(client, Str(user), ch.name, user_data, t))

leave_channel_presence(user, channel_type, channel_id, client, t) ==
    LET ch == PresenceChannel(channel_type, channel_id)
        user_data == [id |-> Str(user), username |-> user, left_at |-> "utcnow"]
    IN Catch(IF ~ch.known THEN Return(FALSE, <<>>)
             ELSE leave_presence(client, Str(user), ch.name, user_data, t))

\* str.strip(): leading and trailing blanks removed
RECURSIVE LStrip(_)
LStrip(s) == IF s # <<>> /\ Head(s) = " " THEN LStrip(Tail(s)) ELSE s
RECURSIVE RStrip(_)
RStrip(s) == IF s # <<>> /\ s[Len(s)] = " " THEN RStrip(SubSeq(s, 1, Len(s) - 1)) ELSE s
Strip(s) == RStrip(LStrip(s))

\* class ChannelPresenceRequest: validate_channel_type, validate_channel_id
ChannelPresenceRequest(channel_type, channel_id) ==
    IF channel_type \notin {"room", "dm", "server"} THEN [valid |-> FALSE]
    ELSE IF channel_id = <<>> \/ Strip(channel_id) = <<>> THEN [valid |-> FALSE]
    ELSE [valid |-> TRUE, channel_type |-> channel_type, channel_id |-> Strip(channel_id)]

\* POST /realtime/presence/enter
enter_channel_presence_endpoint(current_user, channel_type, channel_id, client, t) ==
    LET request_data == ChannelPresenceRequest(channel_type, channel_id)
    IN IF ~request_data.valid THEN ValidationError
       ELSE LET success == enter_channel_presence(current_user, request_data.channel_type,
                                                  request_data.channel_id, client, t)
            IN IF ~success.result
               THEN [HTTPException(500, "Failed to enter channel presence")
                        EXCEPT !.calls = success.calls]
               ELSE [Respond([message |-> <<"Entered presence on ", request_data.channel_type, ":">>
                                           \o request_data.channel_id], DB)
                        EXCEPT !.calls = success.calls]

\* POST /realtime/presence/leave
leave_channel_presence_endpoint(current_user, channel_type, channel_id, client, t) ==
    LET request_data == ChannelPresenceRequest(channel_type, channel_id)
    IN IF ~request_data.valid THEN ValidationError
       ELSE LET success == leave_channel_presence(current_user, request_data.channel_type,
                                                  request_data.channel_id, client, t)
            IN IF ~success.result
               THEN [HTTPException(500, "Failed to leave channel presence")
                        EXCEPT !.calls = success.calls]
               ELSE [Respond([message |-> <<"Left presence on ", request_data.channel_type, ":">>
                                           \o request_data.channel_id], DB)
                        EXCEPT !.calls = success.calls]

----------------------------------------------------------------------------
(* Requests *)

\* the response of the endpoint named by call record c, with the transport
\* client configured or not and behaving as ts
Endpoint(c, client, ts) ==
    LET t == ts[1]
    IN CASE c.op = "get_ably_token" -> get_ably_token(c.user, client, c.signs)
         [] c.op = "join_server" -> join_server(c.user, c.access_code, client, t)
         [] c.op = "leave_server" -> leave_server(c.user, c.server_id)
         [] c.op = "join_room" -> join_room(c.user, c.room_id, client, t)
         [] c.op = "leave_room" -> leave_room(c.user, c.room_id)
         [] c.op = "get_or_create_conversation" -> get_or_create_conversation(c.user, c.target)
         [] c.op = "create_message" -> create_message(c.user, c.room_id, c.conversation_id, client, t)
         [] c.op = "update_message" -> update_message(c.user, c.message_id, client, t)
         [] c.op = "delete_message" -> delete_message(c.user, c.message_id, client, t)
         [] c.op = "add_reaction" -> add_reaction(c.user, c.message_id, c.emoji, client, t)
         [] c.op = "remove_reaction" -> remove_reaction(c.user, c.message_id, c.emoji, client, t)
         [] c.op = "start_typing" -> start_typing(c.user, c.room_id, c.conversation_id, client, t)
         [] c.op = "stop_typing" -> stop_typing(c.user, c.room_id, c.conversation_id, client, t)
         [] c.op = "send_friend_request" -> send_friend_request(c.user, c.target, client, t)
         [] c.op = "accept_friend_request" -> accept_friend_request(c.user, c.friendship_id, client, t)
         [] c.op = "reject_friend_request" -> reject_friend_request(c.user, c.friendship_id)
         [] c.op = "remove_friend" -> remove_friend(c.user, c.friend_id, client, t)
         [] c.op = "update_user_status" -> update_user_status_endpoint(c.user, c.status, client, ts)
         [] c.op = "enter_channel_presence" ->
              enter_channel_presence_endpoint(c.user, c.channel_type, c.channel_id, client, t)
         [] c.op = "leave_channel_presence" ->
              leave_channel_presence_endpoint(c.user, c.channel_type, c.channel_id, client, t)

\* one request served: the response, the committed rows, the background task's calls
\* Requests are served one at a time: a request is taken up when the server is
\* waiting for one.
Waiting == call = Idle

Request(c, ts) ==
    LET r == Endpoint(c, ablyConfigured, ts)
    IN /\ call' = c
       /\ ret' = [status |-> r.status, body |-> r.body]
       /\ tlog' = r.calls
       /\ servers' = r.db.servers /\ userServers' = r.db.userServers
       /\ rooms' = r.db.rooms /\ userRooms' = r.db.userRooms
       /\ convMembers' = r.db.convMembers /\ friendships' = r.db.friendships
       /\ messages' = r.db.messages /\ reactions' = r.db.reactions
       /\ UNCHANGED <<ablyConfigured, counted>>

\* the state left by the development seed (dev.py): one server owned by alice
\* with bob as member, its room with both in it, and their conversation;
\* carol is a user with no membership
Init ==
    /\ ablyConfigured \in BOOLEAN
    /\ servers = {[id |-> "s1", created_by |-> "alice"]}
    /\ userServers = {[user_id |-> "alice", server_id |-> "s1", role |-> "owner"],
                      [user_id |-> "bob", server_id |-> "s1", role |-> "member"]}
    /\ rooms = {[id |-> "r1", server_id |-> "s1", is_private |-> FALSE, created_by |-> "alice"]}
    /\ userRooms = {[user_id |-> "alice", room_id |-> "r1", role |-> "member"],
                    [user_id |-> "bob", room_id |-> "r1", role |-> "member"]}
    /\ convMembers = {[conversation_id |-> "c1", user_id |-> "alice"],
                      [conversation_id |-> "c1", user_id |-> "bob"]}
    /\ friendships = {} /\ messages = {} /\ reactions = {}
    /\ tlog = <<>>
    /\ call = Idle /\ ret = Idle /\ counted = NoneCounted

\* the response has been sent and the background task has run: the server
\* waits for the next request
AwaitRequest ==
    /\ call # Idle
    /\ call' = Idle /\ ret' = Idle /\ tlog' = <<>>
    /\ UNCHANGED <<ablyConfigured, dbVars, counted>>

\* an endpoint that pushes one event meets one behaviour of the transport
SameBehaviour(t) == [i \in 1..MaxList |-> t]
SingleTransports == {SameBehaviour(t) : t \in TransportBehaviours}
NoTransport == {SameBehaviour("ok")}    \* for an endpoint that pushes nothing

UnknownUser == "nobody"
RoomIdFields == {None} \cup {Str(r) : r \in RoomIds}
ConversationIdFields == {Unset, None} \cup {Str(c) : c \in ConversationIds}
MessageIds == 1..MaxMessages
Emojis == {"thumbsup"}
FriendshipIds == {p \in SUBSET Users : Cardinality(p) = 2}
OpsUsers == {"alice", "bob"}

GetAblyToken ==
    /\ Waiting
    /\ \E u \in Users, signs \in BOOLEAN, ts \in NoTransport :
           Request([op |-> "get_ably_token", user |-> u, signs |-> signs], ts)

JoinServer ==
    /\ Waiting
    /\ \E u \in Users, access_code \in ServerIds, ts \in SingleTransports :
           Request([op |-> "join_server", user |-> u, access_code |-> access_code], ts)

LeaveServer ==
    /\ Waiting
    /\ \E u \in Users, server_id \in ServerIds, ts \in NoTransport :
           Request([op |-> "leave_server", user |-> u, server_id |-> server_id], ts)

JoinRoom ==
    /\ Waiting
    /\ \E u \in Users, room_id \in RoomIds, ts \in SingleTransports :
           Request([op |-> "join_room", user |-> u, room_id |-> room_id], ts)

LeaveRoom ==
    /\ Waiting
    /\ \E u \in Users, room_id \in RoomIds, ts \in NoTransport :
           Request([op |-> "leave_room", user |-> u, room_id |-> room_id], ts)

GetOrCreateConversation ==
    /\ Waiting
    /\ Conversations # ConversationIds
    /\ \E u \in Users, target \in Users \cup {UnknownUser}, ts \in NoTransport :
        Request([op |-> "get_or_create_conversation", user |-> u, target |-> target], ts)

CreateMessage(US) ==
    /\ Waiting
    /\ Cardinality(messages) < MaxMessages
    /\ \E u \in US, room_id \in RoomIdFields, conversation_id \in ConversationIdFields,
          ts \in SingleTransports :
        Request([op |-> "create_message", user |-> u, room_id |-> room_id,
                 conversation_id |-> conversation_id], ts)

UpdateMessage(US) ==
    /\ Waiting
    /\ \E u \in US, message_id \in MessageIds, ts \in SingleTransports :
           Request([op |-> "update_message", user |-> u, message_id |-> message_id], ts)

DeleteMessage(US) ==
    /\ Waiting
    /\ \E u \in US, message_id \in MessageIds, ts \in SingleTransports :
           Request([op |-> "delete_message", user |-> u, message_id |-> message_id], ts)

AddReaction(US) ==
    /\ Waiting
    /\ \E u \in US, message_id \in MessageIds, emoji \in Emojis, ts \in SingleTransports :
           Request([op |-> "add_reaction", user |-> u, message_id |-> message_id, emoji |-> emoji], ts)

RemoveReaction(US) ==
    /\ Waiting
    /\ \E u \in US, message_id \in MessageIds, emoji \in Emojis, ts \in SingleTransports :
           Request([op |-> "remove_reaction", user |-> u, message_id |-> message_id,
                    emoji |-> emoji], ts)

StartTyping(US) ==
    /\ Waiting
    /\ \E u \in US, room_id \in RoomIdFields, conversation_id \in ConversationIdFields,
          ts \in SingleTransports :
           Request([op |-> "start_typing", user |-> u, room_id |-> room_id,
                    conversation_id |-> conversation_id], ts)

StopTyping(US) ==
    /\ Waiting
    /\ \E u \in US, room_id \in RoomIdFields, conversation_id \in ConversationIdFields,
          ts \in SingleTransports :
           Request([op |-> "stop_typing", user |-> u, room_id |-> room_id,
                    conversation_id |-> conversation_id], ts)

SendFriendRequest(US) ==
    /\ Waiting
    /\ \E u \in US, target \in US \cup {UnknownUser}, ts \in SingleTransports :
           Request([op |-> "send_friend_request", user |-> u, target |-> target], ts)

AcceptFriendRequest(US) ==
    /\ Waiting
    /\ \E u \in US, friendship_id \in {p \in FriendshipIds : p \subseteq US}, ts \in SingleTransports :
           Request([op |-> "accept_friend_request", user |-> u, friendship_id |-> friendship_id], ts)

RejectFriendRequest(US) ==
    /\ Waiting
    /\ \E u \in US, friendship_id \in {p \in FriendshipIds : p \subseteq US}, ts \in NoTransport :
           Request([op |-> "reject_friend_request", user |-> u, friendship_id |-> friendship_id], ts)

RemoveFriend(US) ==
    /\ Waiting
    /\ \E u \in US, friend_id \in US, ts \in SingleTransports :
           Request([op |-> "remove_friend", user |-> u, friend_id |-> friend_id], ts)

UpdateUserStatus ==
    /\ Waiting
    /\ \E u \in Users, status \in Statuses, ts \in Transports :
           Request([op |-> "update_user_status", user |-> u, status |-> status], ts)

\* what a client may send as channel_type and channel_id: the three kinds of
\* the service and the personal kind; the "server_id:room_id" the service
\* expects for a room, a conversation id, a server id, with or without
\* surrounding blanks, and blank or empty text
ChannelTypes == {"room", "dm", "server", "user"}
ChannelIdTexts == {<<"s1", ":", "r1">>, <<"c1">>, <<"s1">>, <<" ", "c1", " ">>, <<" ">>, <<>>}

EnterChannelPresence ==
    /\ Waiting
    /\ \E u \in Users, ct \in ChannelTypes, id \in ChannelIdTexts, ts \in SingleTransports :
           Request([op |-> "enter_channel_presence", user |-> u,
                    channel_type |-> ct, channel_id |-> id], ts)

LeaveChannelPresence ==
    /\ Waiting
    /\ \E u \in Users, ct \in ChannelTypes, id \in ChannelIdTexts, ts \in SingleTransports :
           Request([op |-> "leave_channel_presence", user |-> u,
                    channel_type |-> ct, channel_id |-> id], ts)

----------------------------------------------------------------------------
(* Specification Spec: memberships, tokens, conversations and new messages *)

Next ==
    \/ GetAblyToken
    \/ JoinServer
    \/ LeaveServer
    \/ JoinRoom
    \/ LeaveRoom
    \/ GetOrCreateConversation
    \/ CreateMessage(Users)
    \/ AwaitRequest

Spec == Init /\ [][Next]_vars

(* Specification SpecOps: the message, reaction, typing and friend          *)
(* endpoints, called by the two seeded members                              *)

NextOps ==
    \/ CreateMessage(OpsUsers)
    \/ UpdateMessage(OpsUsers)
    \/ DeleteMessage(OpsUsers)
    \/ AddReaction(OpsUsers)
    \/ RemoveReaction(OpsUsers)
    \/ StartTyping(OpsUsers)
    \/ StopTyping(OpsUsers)
    \/ SendFriendRequest(OpsUsers)
    \/ AcceptFriendRequest(OpsUsers)
    \/ RejectFriendRequest(OpsUsers)
    \/ RemoveFriend(OpsUsers)
    \/ AwaitRequest

SpecOps == Init /\ [][NextOps]_vars

(* Specification SpecFriends: friendships among all users and presence *)

NextFriends ==
    \/ SendFriendRequest(Users)
    \/ AcceptFriendRequest(Users)
    \/ RejectFriendRequest(Users)
    \/ RemoveFriend(Users)
    \/ UpdateUserStatus
    \/ AwaitRequest

SpecFriends == Init /\ [][NextFriends]_vars

----------------------------------------------------------------------------
(* Reading a response of GET /ably-token *)

TokenIssued == call.op = "get_ably_token" /\ ret.status = 200
Granted == DOMAIN ret.body.capability
RoomChannelOf(r) == <<"room", ":", RoomRow(r).server_id, ":", r>>

(* C2: a token issued by GET /ably-token grants nothing stale: every        *)
(* server:{S} it contains is a server the user is a member of now, and      *)
(* every room:{S}:{R} it contains is a room the user is in, of a server the *)
(* user is a member of now; so after leave_server(S) succeeded the next     *)
(* grant has neither server:{S} nor any room:{S}:{R}.                       *)
C2_NoStaleGrant ==
    TokenIssued =>
        \A ch \in Granted :
            /\ ch[1] = "server" => IsServerMember(call.user, ch[3])
            /\ ch[1] = "room" => (IsServerMember(call.user, ch[3]) /\ IsRoomMember(call.user, ch[5]))

RelatedNow(u, v) == are_friends(u, v) \/ are_in_same_server(u, v)
NotBlocked(u, v) == \A f \in FriendshipBetween(u, v) : f.status # "blocked"
DmGrantsFollowMembership ==
    (call'.op = "get_ably_token" /\ ret'.status = 200) =>
        \A ch \in DOMAIN ret'.body.capability :
            ch[1] = "dm" => [conversation_id |-> ch[3], user_id |-> call'.user] \in convMembers'
CreatedOnlyWhenAllowed ==
    convMembers' # convMembers =>
        /\ call'.op = "get_or_create_conversation" /\ ret'.status = 200
        /\ call'.target \in Users \ {call'.user}
        /\ RelatedNow(call'.user, call'.target) /\ NotBlocked(call'.user, call'.target)
        /\ \E c \in ConversationIds \ Conversations :
              convMembers' = convMembers \cup {[conversation_id |-> c, user_id |-> call'.user],
                                               [conversation_id |-> c, user_id |-> call'.target]}
NoDmForUnrelatedPair ==
    (call'.op = "get_ably_token" /\ ret'.status = 200) =>
        \A ch \in DOMAIN ret'.body.capability :
            ch[1] = "dm" =>
                \A u \in Users, v \in Users :
                    (/\ u = call'.user /\ v # u
                     /\ [conversation_id |-> ch[3], user_id |-> v] \in convMembers')
                    => RelatedNow(u, v)'
OpsEndpoints == {"create_message", "update_message", "delete_message", "add_reaction",
                 "remove_reaction", "start_typing", "stop_typing", "send_friend_request",
                 "accept_friend_request", "reject_friend_request", "remove_friend"}
AcceptedFriendsOf(u) ==
    {v \in Users \ {u} :
        \E f \in friendships : f.status = "accepted" /\ {f.user_id, f.friend_id} = {u, v}}
CallsOn(ch, op) == {i \in 1..Len(tlog) : tlog[i].channel = ch /\ tlog[i].op = op}
C10_PresenceToAcceptedFriends ==
    call.op = "update_user_status" =>
        /\ \A i \in 1..Len(tlog) :
              \E f \in AcceptedFriendsOf(call.user) : tlog[i].channel = <<"user", ":", f>>
        /\ \A i \in PublishIndexes :
              /\ tlog[i].name = "presence." \o call.status
              /\ tlog[i].event.type = "presence." \o call.status
        /\ ablyConfigured =>
              \A f \in AcceptedFriendsOf(call.user) :
                  /\ Cardinality(CallsOn(<<"user", ":", f>>, "channels.get")) = 1
                  /\ Cardinality(CallsOn(<<"user", ":", f>>, "publish")) =
                        IF \A i \in CallsOn(<<"user", ":", f>>, "channels.get") :
                               tlog[i].outcome = "ok"
                        THEN 1 ELSE 0
        /\ ~ablyConfigured => tlog = <<>>

\* alice, with bob an accepted friend and a request to carol pending, goes away
C10_Witness ==
    /\ call.op = "update_user_status" /\ call.user = "alice" /\ call.status = "away"
    /\ AcceptedFriendsOf("alice") = {"bob"}
    /\ \E f \in friendships : f.status = "pending" /\ {f.user_id, f.friend_id} = {"alice", "carol"}
    /\ Cardinality(PublishIndexes) = 1
    /\ \A i \in PublishIndexes : /\ tlog[i].channel = <<"user", ":", "bob">>
                                 /\ tlog[i].event.type = "presence.away"
                                 /\ tlog[i].outcome = "ok"

----------------------------------------------------------------------------
(* Claims on SpecPub: fan-out                                               *)

\* the channels the transport was asked for, in the order of the requests
RECURSIVE LookedUp(_)
LookedUp(log) ==
    IF log = <<>> THEN <<>>
    ELSE IF Head(log).op = "channels.get" THEN <<Head(log).channel>> \o LookedUp(Tail(log))
    ELSE LookedUp(Tail(log))

RECURSIVE UserChannels(_)
UserChannels(user_ids) ==
    IF user_ids = <<>> THEN <<>>
    ELSE <<UserChannelName(Head(user_ids))>> \o UserChannels(Tail(user_ids))

FannedOut == Returned /\ call.op \in FanOutOps

(* C11: a fan-out helper (publish_friend_online, publish_friend_offline,    *)
(* publish_user_presence) attempts a push for every recipient of its list,  *)
(* in the order of the list, whatever became of the earlier pushes: with    *)
(* the transport configured the channel user:{recipient} is looked up once  *)
(* for each entry of the list, and the result is true only if every push    *)
(* succeeded.                                                               *)
C11_FanOutReachesEveryRecipient ==
    (FannedOut /\ ablyConfigured) =>
        /\ LookedUp(tlog) = UserChannels(call.friend_user_ids)
        /\ ret.result = (\A i \in 1..Len(tlog) : tlog[i].outcome = "ok")

C11_Witness ==
    /\ FannedOut /\ ablyConfigured /\ call.op = "publish_friend_online"
    /\ call.friend_user_ids = <<Str("bob"), Str("carol")>>
    /\ Len(tlog) = 3
    /\ tlog[1].channel = UserChannelName(Str("bob")) /\ tlog[1].outcome = "raised"
    /\ tlog[3].op = "publish" /\ tlog[3].channel = UserChannelName(Str("carol"))
    /\ tlog[3].outcome = "ok"
    /\ ret.result = FALSE

----------------------------------------------------------------------------
(* Claims on SpecFriends: the result of a status update                     *)

(* C12: a status update reports success whatever became of the fan-out to   *)
(* the user's friends: POST /realtime/status answers 200 also when a push   *)
(* to a friend failed or the transport is not configured.  (The service     *)
(* writes the status nowhere: the fan-out is all it does, and its result is *)
(* the result of the update.)                                               *)
C12_StatusUpdateSucceeds ==
    call.op = "update_user_status" => ret.status = 200

----------------------------------------------------------------------------
(* Specification SpecPresence: channel presence requests of three users,    *)
(* under every behaviour of the transport                                   *)

NextPresence ==
    \/ EnterChannelPresence
    \/ LeaveChannelPresence
    \/ AwaitRequest

SpecPresence == Init /\ [][NextPresence]_vars

----------------------------------------------------------------------------
(* Specification SpecLeave: presence is left and never entered              *)

NextLeave ==
    \/ LeaveChannelPresence
    \/ AwaitRequest

SpecLeave == Init /\ [][NextLeave]_vars

----------------------------------------------------------------------------
(* Claims on SpecLeave and SpecPresence: leaving and channel kinds          *)

PresenceOps == {"enter_channel_presence", "leave_channel_presence"}
PresenceKinds == {"room", "dm", "server"}

(* C14: leaving presence on a (user, channel) pair that was never entered,  *)
(* or was left before, returns success and not an error: with a channel     *)
(* kind and id the request model accepts, POST /realtime/presence/leave     *)
(* answers 200.  (In SpecLeave no pair is ever entered.)                    *)
C14_LeaveNeverEnteredSucceeds ==
    (/\ call.op = "leave_channel_presence"
     /\ ChannelPresenceRequest(call.channel_type, call.channel_id).valid)
        => ret.status = 200

\* the service called with a kind outside room, dm and server returns False
\* and asks nothing of the transport
ServiceRejectsOtherKinds ==
    \A u \in Users, ct \in ChannelTypes \ PresenceKinds, id \in ChannelIdTexts,
       client \in BOOLEAN, t \in TransportBehaviours :
        /\ enter_channel_presence(u, ct, id, client, t) = Return(FALSE, <<>>)
        /\ leave_channel_presence(u, ct, id, client, t) = Return(FALSE, <<>>)

(* C15: presence enter and leave accept only the channel kinds room, dm and *)
(* server.  A request with kind user is rejected by the request model (422) *)
(* with no call to the transport and no row changed; and the service itself,*)
(* called with such a kind, returns False without a call to the transport.  *)
C15_OnlyRoomDmServer ==
    [][(call'.op \in PresenceOps /\ call'.channel_type \notin PresenceKinds)
          => /\ ret'.status = 422
             /\ tlog' = <<>>
             /\ UNCHANGED dbVars
             /\ ServiceRejectsOtherKinds]_vars

C15_Witness ==
    /\ call.op = "enter_channel_presence" /\ call.channel_type = "user"
    /\ call.channel_id = <<"c1">> /\ ablyConfigured
    /\ ret.status = 422 /\ tlog = <<>>

----------------------------------------------------------------------------
(* Specification SpecNames: the channel names of two scopes whose ids are   *)
(* arbitrary short texts, ':' included: what the publisher publishes on,    *)
(* what the capability builder grants, and how the room membership encoded  *)
(* for the token is decoded.                                                *)

MaxIdLen == 2

\* an id as the code takes it: any non-empty str; "a" stands for a character
\* other than ':'
IdTexts == SeqsUpTo({"a", ":"}, MaxIdLen) \ {<<>>}
Scopes ==
    [kind : {"room"}, ids : IdTexts \X IdTexts]
    \cup [kind : {"dm", "user", "server"}, ids : {<<id>> : id \in IdTexts}]

\* one event published to the scope, by the publish_to_* operation of its kind
PublishToScope(scope, client, t) ==
    LET msg == [id |-> "m1"]
    IN CASE scope.kind = "room" ->
              publish_to_room(client, scope.ids[1], scope.ids[2], "custom.event", msg, None, t)
         [] scope.kind = "dm" -> publish_to_dm(client, scope.ids[1], "custom.event", msg, None, t)
         [] scope.kind = "user" -> publish_to_user(client, scope.ids[1], "custom.event", msg, t)
         [] scope.kind = "server" ->
              publish_to_server(client, scope.ids[1], "custom.event", msg, None, t)

\* the channel a configured publisher asks the transport for
ScopeChannel(scope) == PublishToScope(scope, TRUE, "ok").calls[1].channel

\* f"{room.server_id}:{user_room.room_id}" on id texts
FormatRoomInfo(server_id, room_id) == server_id \o <<":">> \o room_id

NoCapabilities == [k \in {} |-> <<>>]

\* the channels the capability builder grants for a membership in the scope
GrantedChannels(scope) ==
    CASE scope.kind = "room" ->
           DOMAIN AddRoomCapabilities(NoCapabilities,
                                      <<FormatRoomInfo(scope.ids[1], scope.ids[2])>>)
      [] scope.kind = "dm" -> DOMAIN AddDmCapabilities(NoCapabilities, <<scope.ids[1]>>)
      [] scope.kind = "user" -> {UserChannelName(scope.ids[1])}
      [] scope.kind = "server" -> DOMAIN AddServerCapabilities(NoCapabilities, <<scope.ids[1]>>)

\* the ids generate_token_request reads back from the encoded room membership
DecodedIds(scope) ==
    IF scope.kind = "room" THEN SplitOnce(FormatRoomInfo(scope.ids[1], scope.ids[2]))
    ELSE scope.ids

InitNames ==
    /\ ablyConfigured \in BOOLEAN
    /\ servers = {} /\ userServers = {} /\ rooms = {} /\ userRooms = {}
    /\ convMembers = {} /\ friendships = {} /\ messages = {} /\ reactions = {}
    /\ tlog = <<>>
    /\ \E s1 \in Scopes, s2 \in Scopes : call = [op |-> "resolve", first |-> s1, second |-> s2]
    /\ ret = Idle /\ counted = NoneCounted

ResolveScopes ==
    /\ call.op = "resolve" /\ ret = Idle
    /\ ret' = [op |-> "resolved",
               names |-> <<ScopeChannel(call.first), ScopeChannel(call.second)>>,
               granted |-> <<GrantedChannels(call.first), GrantedChannels(call.second)>>,
               decoded |-> DecodedIds(call.first)]
    /\ tlog' = PublishToScope(call.first, ablyConfigured, "ok").calls
    /\ UNCHANGED <<ablyConfigured, dbVars, call, counted>>

NextNames == ResolveScopes

SpecNames == InitNames /\ [][NextNames]_vars

----------------------------------------------------------------------------
(* Claims on SpecNames *)

Resolved == call.op = "resolve" /\ ret # Idle
HasColon(scope) == \E i \in 1..Len(scope.ids) : Contains(scope.ids[i], ":")

(* C16: the channel naming is injective over every id the code accepts: two *)
(* different scopes never get the same channel string.                      *)
C16_NamingInjective ==
    (Resolved /\ call.first # call.second) => ret.names[1] # ret.names[2]

C18_ColonIdRejected ==
    (Resolved /\ HasColon(call.first)) => (tlog = <<>> /\ ret.granted[1] = {})

----------------------------------------------------------------------------
(* Claims on SpecCap: determinism of the grant                              *)

\* the lists of up to MaxList entries with the same entries as list l
SameEntries(l) == {m \in SeqsUpTo(Range(l), MaxList) : Range(m) = Range(l)}

(* C19: the capability map depends only on the user and on the sets of      *)
(* servers, rooms and conversations: the membership lists in any other      *)
(* order, or with entries repeated, give the same map.  (One list is varied *)
(* at a time; every triple of lists is a call of SpecCap, so the map is the *)
(* same for any two triples with the same entries.)                         *)
CapabilityOf(u, srvs, pairs, convs) ==
    generate_token_request(TRUE, u, StrList(srvs), RoomChannels(pairs), StrList(convs),
                           TRUE).capability

C19_GrantDependsOnSetsOnly ==
    (call.op = "generate_token_request" /\ ret # Idle /\ ret.ok) =>
        /\ \A srvs \in SameEntries(call.servers) :
              CapabilityOf(call.user, srvs, call.rooms, call.conversations) = ret.capability
        /\ \A pairs \in SameEntries(call.rooms) :
              CapabilityOf(call.user, call.servers, pairs, call.conversations) = ret.capability
        /\ \A convs \in SameEntries(call.conversations) :
              CapabilityOf(call.user, call.servers, call.rooms, convs) = ret.capability

\* two servers in one order, one room and one conversation listed twice
C19_Witness ==
    /\ call.op = "generate_token_request" /\ ret # Idle /\ ret.ok
    /\ call.servers = <<"s2", "s1">>
    /\ call.rooms = << <<"s1", "r1">>, <<"s1", "r1">> >>
    /\ call.conversations = <<"c1", "c1">>
    /\ Cardinality(DOMAIN ret.capability) = 5
    /\ ret.capability = generate_token_request(TRUE, call.user, <<Str("s1"), Str("s2")>>,
                                               <<RoomInfo("s1", "r1")>>, <<Str("c1")>>,
                                               TRUE).capability

----------------------------------------------------------------------------
(* Claims on SpecOps: delivery                                              *)

EventOps == {"create_message", "update_message", "delete_message", "add_reaction",
             "remove_reaction", "start_typing", "stop_typing", "send_friend_request",
             "accept_friend_request", "remove_friend"}

----------------------------------------------------------------------------
(* Claims on Spec: the target of a new message                              *)

NamesRoom(c) == Truthy(c.room_id)
NamesConversation(c) == Truthy(FieldValue(c.conversation_id))

(* C23: a create-message request must name exactly one target: a request   *)
(* with both room_id and conversation_id, and a request with neither, is    *)
(* answered 422, persists no message and publishes no event.                *)
C23_ExactlyOneTarget ==
    (call.op = "create_message" /\ (NamesRoom(call) <=> NamesConversation(call))) =>
        (ret.status = 422 /\ messages = {} /\ tlog = <<>>)

----------------------------------------------------------------------------
(* Claims on SpecOps: a push follows a committed change                     *)

CommitOps == {"create_message", "update_message", "delete_message", "add_reaction",
              "remove_reaction", "send_friend_request", "accept_friend_request",
              "remove_friend"}

\* the change the request of call record c asked for is in the database
Committed(c) ==
    CASE c.op = "create_message" -> \E m \in messages : m.id = ret.body.id
      [] c.op = "update_message" ->
            MessageExists(c.message_id) /\ MessageOf(c.message_id).edited
      [] c.op = "delete_message" ->
            ~MessageExists(c.message_id) /\ \A r \in reactions : r.message_id # c.message_id
      [] c.op = "add_reaction" ->
            [message_id |-> c.message_id, user_id |-> c.user, emoji |-> c.emoji] \in reactions
      [] c.op = "remove_reaction" ->
            [message_id |-> c.message_id, user_id |-> c.user, emoji |-> c.emoji] \notin reactions
      [] c.op = "send_friend_request" ->
            \E f \in friendships :
                f.user_id = c.user /\ f.friend_id = c.target /\ f.status = "pending"
      [] c.op = "accept_friend_request" ->
            \E f \in friendships :
                f.id = c.friendship_id /\ f.friend_id = c.user /\ f.status = "accepted"
      [] c.op = "remove_friend" -> FriendshipBetween(c.user, c.friend_id) = {}

----------------------------------------------------------------------------
(* Claims on Spec: who may open a direct conversation                       *)

(* C24: can_send_dm(sender, recipient) returns a verdict: False when a      *)
(* blocked relationship exists between the two in either direction, else    *)
(* True when they are accepted friends or share a server, else False; and   *)
(* the verdict is the same with sender and recipient swapped.  Stated for   *)
(* the pair of a get_or_create_conversation request, which calls it.        *)
C24_CanSendDmVerdict ==
    (call.op = "get_or_create_conversation" /\ call.target \in Users \ {call.user}) =>
        LET dm == can_send_dm(call.user, call.target)
        IN /\ ~dm.raised
           /\ dm.can = (NotBlocked(call.user, call.target) /\ RelatedNow(call.user, call.target))
           /\ dm = can_send_dm(call.target, call.user)

(* C29: at most one direct conversation exists per unordered pair of users, *)
(* every conversation has exactly two distinct members, and a call of       *)
(* get_or_create_conversation for a pair that has a conversation, by either *)
(* of the two, returns the id of that conversation.                         *)
MembersOf(c) == {m.user_id : m \in {x \in convMembers : x.conversation_id = c}}

C29_OneConversationPerPair ==
    /\ \A c \in Conversations : Cardinality(MembersOf(c)) = 2
    /\ \A c, d \in Conversations : MembersOf(c) = MembersOf(d) => c = d
    /\ (call.op = "get_or_create_conversation" /\ call.target \in Users \ {call.user}
        /\ ExistingConversation(call.user, call.target) # {}) =>
            /\ ret.status = 200
            /\ ret.body.id \in {Str(c) : c \in ExistingConversation(call.user, call.target)}


\* the friendship rows between two users of the current state, either direction
RowsBetween(u, v) ==
    {f \in friendships : {f.user_id, f.friend_id} = {u, v}}

(* C26: a friend request is rejected with 400, with no friendship row       *)
(* changed and no friend.request event, when its target is the caller or a  *)
(* friendship between the two exists in either direction with status        *)
(* accepted or pending; a rejected friendship is reused: it is set back to  *)
(* pending with the caller as the requester.                                *)
C26_FriendRequestRejectedOrReused ==
    [][call'.op = "send_friend_request" =>
          /\ (\/ call'.target = call'.user
              \/ \E f \in RowsBetween(call'.user, call'.target) :
                     f.status \in {"accepted", "pending"})
                => /\ ret'.status = 400
                   /\ tlog' = <<>>
                   /\ UNCHANGED dbVars
          /\ (\E f \in RowsBetween(call'.user, call'.target) : f.status = "rejected")
                => /\ ret'.status = 200
                   /\ friendships' =
                         (friendships \ RowsBetween(call'.user, call'.target))
                         \cup {[id |-> {call'.user, call'.target}, user_id |-> call'.user,
                                friend_id |-> call'.target, status |-> "pending"]}]_vars

\* a request refused because the target's own request to the caller is pending
C26_Witness ==
    /\ call.op = "send_friend_request" /\ call.user = "bob" /\ call.target = "alice"
    /\ ret.status = 400 /\ tlog = <<>>
    /\ friendships = {[id |-> {"alice", "bob"}, user_id |-> "alice", friend_id |-> "bob",
                       status |-> "pending"]}

(* C28: the room channels granted by a token agree with the room access     *)
(* check of the message endpoints: a token issued to a user grants          *)
(* room:{S}:{R} if and only if the user passes validate_room_access for R.  *)
C28_TokenAgreesWithRoomAccess ==
    TokenIssued =>
        \A r \in RoomIds :
            RoomExists(r) =>
                (RoomChannelOf(r) \in Granted <=> validate_room_access(Str(r), call.user).ok)

\* the capability of a token issued to the user in the current state
TokenCapability(u) == get_ably_token(u, TRUE, TRUE).body.capability

(* C30: presence is entered only on channels the user is authorized for and *)
(* only under canonical names: every channel name enter_channel_presence    *)
(* passes to the transport is a room:{server}:{room}, dm:{conversation} or  *)
(* server:{server} channel that a token issued to that user in the same     *)
(* state would grant.                                                       *)
C30_PresenceOnlyOnGrantedChannels ==
    call.op = "enter_channel_presence" =>
        \A i \in 1..Len(tlog) :
            /\ Head(tlog[i].channel) \in PresenceKinds
            /\ tlog[i].channel \in DOMAIN TokenCapability(call.user)

----------------------------------------------------------------------------
(* Servers and rooms created by requests, from a database with no rows *)

InitEmpty ==
    /\ ablyConfigured \in BOOLEAN
    /\ servers = {} /\ userServers = {} /\ rooms = {} /\ userRooms = {}
    /\ convMembers = {} /\ friendships = {} /\ messages = {} /\ reactions = {}
    /\ tlog = <<>>
    /\ call = Idle /\ ret = Idle /\ counted = NoneCounted

\* one request of a creating endpoint served: the response r, the committed
\* rows, the background task's calls
Served(c, r) ==
    /\ call' = c
    /\ ret' = [status |-> r.status, body |-> r.body]
    /\ tlog' = r.calls
    /\ servers' = r.db.servers /\ userServers' = r.db.userServers
    /\ rooms' = r.db.rooms /\ userRooms' = r.db.userRooms
    /\ convMembers' = r.db.convMembers /\ friendships' = r.db.friendships
    /\ messages' = r.db.messages /\ reactions' = r.db.reactions
    /\ UNCHANGED <<ablyConfigured, counted>>

CreateServer(US) ==
    /\ Waiting
    /\ \E sv \in ServerIds : ~ServerExists(sv)
    /\ \E u \in US, ts \in SingleTransports :
           Served([op |-> "create_server", user |-> u],
                  create_server(u, ServerIds, ablyConfigured, ts[1]))

CreateRoom(US) ==
    /\ Waiting
    /\ \E r \in RoomIds : ~RoomExists(r)
    /\ \E u \in US, server_id \in ServerIds, is_private \in BOOLEAN, ts \in SingleTransports :
           Served([op |-> "create_room", user |-> u, server_id |-> server_id,
                   is_private |-> is_private],
                  create_room(u, server_id, is_private, RoomIds, ablyConfigured, ts[1]))

JoinServerBy(US) ==
    /\ Waiting
    /\ \E u \in US, access_code \in ServerIds, ts \in SingleTransports :
           Request([op |-> "join_server", user |-> u, access_code |-> access_code], ts)

LeaveServerBy(US) ==
    /\ Waiting
    /\ \E u \in US, server_id \in ServerIds, ts \in NoTransport :
           Request([op |-> "leave_server", user |-> u, server_id |-> server_id], ts)

JoinRoomBy(US) ==
    /\ Waiting
    /\ \E u \in US, room_id \in RoomIds, ts \in SingleTransports :
           Request([op |-> "join_room", user |-> u, room_id |-> room_id], ts)

LeaveRoomBy(US) ==
    /\ Waiting
    /\ \E u \in US, room_id \in RoomIds, ts \in NoTransport :
           Request([op |-> "leave_room", user |-> u, room_id |-> room_id], ts)

(* Specification SpecOwners: two users create, join and leave servers and   *)
(* rooms, one request at a time.                                            *)

NextOwners ==
    \/ CreateServer(OpsUsers)
    \/ CreateRoom(OpsUsers)
    \/ JoinServerBy(OpsUsers)
    \/ LeaveServerBy(OpsUsers)
    \/ JoinRoomBy(OpsUsers)
    \/ LeaveRoomBy(OpsUsers)
    \/ AwaitRequest

SpecOwners == InitEmpty /\ [][NextOwners]_vars

(* Specification SpecLimit: create_server requests served by several        *)
(* workers on one database.  A request runs its count query in one step and *)
(* its insert and commit in a later one; between the two, other requests,   *)
(* of the same user too, run theirs.                                        *)

MaxInFlight == 2
LimitServerIds == {"s1", "s2", "s3", "s4"}

InFlight == Cardinality({p \in Users \X (1..MaxInFlight) : p[2] <= counted[p[1]]})

\* lines 116-128: the count query and the limit check
CountOwnedServers(US) ==
    /\ InFlight < MaxInFlight
    /\ \E u \in US :
           IF server_limit_reached(u)
           THEN LET r == create_server(u, LimitServerIds, ablyConfigured, "ok")
                IN /\ call' = [op |-> "create_server", user |-> u]
                   /\ ret' = [status |-> r.status, body |-> r.body]
                   /\ tlog' = r.calls
                   /\ UNCHANGED <<ablyConfigured, dbVars, counted>>
           ELSE /\ counted' = [counted EXCEPT ![u] = @ + 1]
                /\ UNCHANGED <<ablyConfigured, dbVars, tlog, call, ret>>

\* lines 130-165: the rows, the commit, the response and the background task
InsertServer(US) ==
    /\ \E sv \in LimitServerIds : ~ServerExists(sv)
    /\ \E u \in US, ts \in SingleTransports :
           /\ counted[u] > 0
           /\ LET r == insert_server(u, LimitServerIds, ablyConfigured, ts[1])
              IN /\ call' = [op |-> "create_server", user |-> u]
                 /\ ret' = [status |-> r.status, body |-> r.body]
                 /\ tlog' = r.calls
                 /\ servers' = r.db.servers /\ userServers' = r.db.userServers
           /\ counted' = [counted EXCEPT ![u] = @ - 1]
           /\ UNCHANGED <<ablyConfigured, rooms, userRooms, convMembers, friendships,
                          messages, reactions>>

NextLimit ==
    \/ CountOwnedServers(OpsUsers)
    \/ InsertServer(OpsUsers)

SpecLimit == InitEmpty /\ [][NextLimit]_vars

(* C25: no user holds the owner role in more than 3 servers, concurrent     *)
(* create_server requests of one user included.                             *)
C25_AtMostThreeOwned ==
    \A u \in Users : OwnedServerCount(u) <= MaxOwnedServers

\* what the limit check alone gives: a request that finds three owned servers
\* is answered 400 and calls nothing
LimitCheckRejects ==
    (call.op = "create_server" /\ ret.status = 400) =>
        (tlog = <<>> /\ OwnedServerCount(call.user) >= MaxOwnedServers)

\* the owner rows of the model: the creator's row with role owner
OwnerIsMember ==
    /\ \A sv \in servers :
          [user_id |-> sv.created_by, server_id |-> sv.id, role |-> "owner"] \in userServers
    /\ \A rm \in rooms :
          [user_id |-> rm.created_by, room_id |-> rm.id, role |-> "owner"] \in userRooms

=============================================================================
